---- MODULE Spec2Model ----
(***************************************************************************)
(* Model of the software supply chain exporter pipeline (bin/ssce.rs):     *)
(* create_sboms -> scan -> export_metrics -> clean, over a file system     *)
(* holding the SBOM cache and the metrics file, with the external tools    *)
(* (docker buildx imagetools, syft, grype) as nondeterministic outcomes.   *)
(***************************************************************************)
EXTENDS Integers, Sequences, FiniteSets, TLC

\* ------------------------------------------------------------------------
\* Bounds
\* ------------------------------------------------------------------------
\* longest batch of sources handed to create_sboms
MaxSources == 2
\* most runs of main, one after the other
MaxCycles == 2

\* ------------------------------------------------------------------------
\* Generic helpers
\* ------------------------------------------------------------------------
None == [none |-> TRUE]
Some(v) == [some |-> v]
Ok(v) == [ok |-> TRUE, value |-> v]
Err(e) == [ok |-> FALSE, error |-> e]

Range(f) == {f[x] : x \in DOMAIN f}

\* the sequences without repetition over S of length at most n
RECURSIVE InjectiveSeqs(_, _)
InjectiveSeqs(S, n) ==
    IF n = 0 THEN {<<>>}
    ELSE LET shorter == InjectiveSeqs(S, n - 1)
             longest == {q \in shorter : Len(q) = n - 1}
         IN shorter \cup
            {Append(p[1], p[2]) :
                p \in {pp \in longest \X S : pp[2] \notin Range(pp[1])}}

\* Characters of a string literal, one element per character.
Chars_sbom_docker == <<"s", "b", "o", "m", "/", "d", "o", "c", "k", "e", "r", "/">>
Chars_dot_json == <<".", "j", "s", "o", "n">>
Chars_json == <<"j", "s", "o", "n">>
Chars_metrics_prom ==
    <<"m", "e", "t", "r", "i", "c", "s", "/",
      "m", "e", "t", "r", "i", "c", "s", ".", "p", "r", "o", "m">>

\* ------------------------------------------------------------------------
\* Paths (std::path): a path is the sequence of its components, each a
\* sequence of characters; PathBuf equality compares components.
\* ------------------------------------------------------------------------
\* the components of a relative path given as a character string
RECURSIVE Components(_)
Components(str) ==
    IF str = <<>> THEN <<>>
    ELSE IF Head(str) = "/" THEN Components(Tail(str))
    ELSE LET firstSep == IF \E k \in DOMAIN str : str[k] = "/"
                         THEN CHOOSE k \in DOMAIN str :
                                /\ str[k] = "/"
                                /\ \A j \in 1..(k - 1) : str[j] # "/"
                         ELSE Len(str) + 1
         IN <<SubSeq(str, 1, firstSep - 1)>>
              \o Components(SubSeq(str, firstSep + 1, Len(str)))

\* Path::join with a relative path
PathJoin(base, rel) == base \o Components(rel)

\* Path::parent
Parent(path) == SubSeq(path, 1, Len(path) - 1)

\* Path::extension: the part of the file name after its last dot, if the
\* dot is not the first character
Extension(path) ==
    IF path = <<>> THEN None
    ELSE LET fname == path[Len(path)]
             dots == {k \in DOMAIN fname : fname[k] = "."}
         IN IF dots = {} THEN None
            ELSE LET last == CHOOSE k \in dots : \A j \in dots : j <= k
                 IN IF last = 1 THEN None
                    ELSE SubSeq(fname, last + 1, Len(fname))

\* ------------------------------------------------------------------------
\* Sources (config.rs)
\* ------------------------------------------------------------------------
DockerImage(name, id) == [type |-> "DockerImage", name |-> name, id |-> id]
HostDirectory(path) == [type |-> "HostDirectory", path |-> path]

\* image ids are digests: character strings without path separators
ImageIdA == <<"a">>
ImageIdB == <<"b">>
ImageIds == {ImageIdA, ImageIdB}

\* the sources a batch is drawn from: two tags of one image, a second
\* image sharing a tag name, and a host directory
SourceUniverse ==
    {DockerImage("nginx", ImageIdA), DockerImage("redis", ImageIdA),
     DockerImage("redis", ImageIdB), HostDirectory("/")}

\* ------------------------------------------------------------------------
\* Config (config.rs)
\* ------------------------------------------------------------------------
BasePath == <<<<"c">>>>
CacheDuration == 2

\* sbom_path, had the file name not been made from the id
sbom_path_without_id(cfg, source) ==
    IF source.type = "DockerImage"
    THEN PathJoin(cfg.base_path, Chars_sbom_docker \o Chars_dot_json)
    ELSE None

sbom_path(cfg, source) ==
    IF source.type = "DockerImage"
    THEN PathJoin(cfg.base_path, Chars_sbom_docker \o source.id \o Chars_dot_json)
    ELSE None

metrics_path(cfg) ==
    IF cfg.metrics_path # None
    THEN cfg.metrics_path
    ELSE PathJoin(cfg.base_path, Chars_metrics_prom)

\* ------------------------------------------------------------------------
\* Bytes and JSON (serde_json).  A byte string is empty, garbled, or the
\* text of one JSON value in some layout; parsing forgets the layout and
\* serialising always produces the compact one.  A JSON object is a
\* function from its keys to values.
\* ------------------------------------------------------------------------
EmptyBytes == [kind |-> "empty"]
Garbled == [kind |-> "garbled"]
JsonText(v, fmt) == [kind |-> "json", value |-> v, fmt |-> fmt]

\* serde_json::from_slice / from_reader into a Value
from_slice(bytes) ==
    IF bytes.kind = "json" THEN Ok(bytes.value) ELSE Err("parse")

\* serde_json::to_vec
to_vec(v) == JsonText(v, "compact")

\* the JSON object {} (also standing for null: both answer every get with None)
EmptyObject == <<>>

\* Value::get(key) on an object
JsonGet(v, key) == IF key \in DOMAIN v THEN v[key] ELSE None

Packages1 ==
    <<[name |-> "curl", versionInfo |-> "8.4.0"], [name |-> "curl", versionInfo |-> ""]>>

\* an SPDX document about target, written by creator, with a package list
SpdxDoc(target, creator) ==
    [name |-> target, creator |-> creator, packages |-> Packages1]
\* a JSON document about target that has no packages array
BareDoc(target, creator) == [name |-> target, creator |-> creator]

\* ------------------------------------------------------------------------
\* External tools: what one invocation can do
\* ------------------------------------------------------------------------
\* syft scan <target>: Command::output() fails, never returns, or returns
\* an exit status (which the caller ignores) and the captured stdout
GeneratorOutcomes(target) ==
    {[spawn |-> "err"], [spawn |-> "hang"]}
    \cup {[spawn |-> "ok", status |-> 0, stdout |-> b] :
            b \in {JsonText(SpdxDoc(target, "syft"), "pretty"),
                   JsonText(BareDoc(target, "syft"), "pretty")}}
    \cup {[spawn |-> "ok", status |-> 1, stdout |-> b] : b \in {EmptyBytes, Garbled}}

\* the JSON values docker buildx imagetools inspect can print for .SBOM
AttestationValues(target) ==
    LET d == SpdxDoc(target, "buildkit")
    IN {EmptyObject,
        ("linux/amd64" :> ("SPDX" :> d)),
        ("linux/arm64" :> ("SPDX" :> d)),
        ("SPDX" :> d),
        ("linux/amd64" :> EmptyObject) @@ ("SPDX" :> d)}

AttestationOutcomes(target) ==
    {[spawn |-> "err"], [spawn |-> "hang"],
     [spawn |-> "ok", status |-> 1, stdout |-> Garbled]}
    \cup {[spawn |-> "ok", status |-> 0, stdout |-> JsonText(v, "compact")] :
            v \in AttestationValues(target)}

Invocation(tool, target) == [tool |-> tool, target |-> target]

\* ------------------------------------------------------------------------
\* File system: every path holds a file (its bytes and last-access time)
\* or nothing
\* ------------------------------------------------------------------------
Absent == [absent |-> TRUE]
\* (metadata.accessed() is Ok(time), or an error where the platform has none)
FileOf(data, atime) == [data |-> data, atime |-> Ok(atime)]

\* std::fs::write(path, bytes): File::create then write_all.
\* io = "create_err": nothing changes; "write_err": the file was truncated
\* and part of the bytes may have arrived.
fs_write(fs, path, bytes, io, clock) ==
    IF io = "create_err" THEN fs
    ELSE IF io = "write_err"
    THEN [fs EXCEPT ![path] = FileOf([kind |-> "partial"], clock)]
    ELSE [fs EXCEPT ![path] = FileOf(bytes, clock)]

\* ------------------------------------------------------------------------
\* sbom.rs
\* ------------------------------------------------------------------------
HostArchs == {"x86_64", "aarch64", "riscv64"}

\* ArchKey, had the two platforms been mixed up
ArchKey_swapped(hostArch) ==
    CASE hostArch = "x86_64" -> "linux/arm64"
      [] hostArch = "aarch64" -> "linux/amd64"
      [] OTHER -> ""

\* get_sbom lines 72-76
ArchKey(hostArch) ==
    CASE hostArch = "x86_64" -> "linux/amd64"
      [] hostArch = "aarch64" -> "linux/arm64"
      [] OTHER -> ""

\* get_sbom lines 70-96, the attestation lookup: the result, the commands
\* run (a failed spawn included), and whether it is still waiting for one
\* that never returns
attestation_sbom(scan_target, hostArch, att) ==
    LET inv == {Invocation("docker", scan_target)}
    IN IF att.spawn = "hang" THEN [res |-> None, invoked |-> inv, hang |-> TRUE]
       ELSE IF att.spawn = "err"
       THEN [res |-> Err("io"), invoked |-> inv, hang |-> FALSE]
       ELSE LET output == from_slice(att.stdout)
            IN IF ~output.ok
               THEN [res |-> output, invoked |-> inv, hang |-> FALSE]
               ELSE LET byArch == JsonGet(output.value, ArchKey(hostArch))
                        parsed_output ==
                            IF byArch # None THEN JsonGet(byArch, "SPDX")
                            ELSE JsonGet(output.value, "SPDX")
                    IN [res |-> IF parsed_output = None
                                THEN Err("no attestation")
                                ELSE Ok(parsed_output),
                        invoked |-> inv, hang |-> FALSE]

\* get_sbom, had it never looked at the cache file
get_sbom_ignoring_cache(scan_target, path, fs, hostArch, att, readOk) ==
    attestation_sbom(scan_target, hostArch, att)

\* get_sbom, had it gone on to the attestation lookup when the cache file
\* cannot be opened or parsed
get_sbom_falling_back(scan_target, path, fs, hostArch, att, readOk) ==
    IF fs[path] # Absent /\ readOk /\ from_slice(fs[path].data).ok
    THEN [res |-> from_slice(fs[path].data), invoked |-> {}, hang |-> FALSE]
    ELSE attestation_sbom(scan_target, hostArch, att)

\* get_sbom: a cache file that exists is opened and parsed, and that is the
\* result; without one the attestation is looked up
get_sbom(scan_target, path, fs, hostArch, att, readOk) ==
    IF fs[path] # Absent
    THEN [res |-> IF ~readOk THEN Err("io") ELSE from_slice(fs[path].data),
          invoked |-> {}, hang |-> FALSE]
    ELSE attestation_sbom(scan_target, hostArch, att)

scan_target_of(source) ==
    IF source.type = "DockerImage" THEN source.name ELSE source.path

\* create_sbom: the result, the subprocesses invoked, whether it is stuck
\* waiting, and the file system it leaves
create_sbom(cfg, source, fs, hostArch, att, gen, io, readOk, clock) ==
    LET scan_target == scan_target_of(source)
        path == sbom_path(cfg, source)
        cached == IF path # None
                  THEN get_sbom(scan_target, path, fs, hostArch, att, readOk)
                  ELSE [res |-> Err("uncacheable"), invoked |-> {}, hang |-> FALSE]
        inv == cached.invoked \cup {Invocation("syft", scan_target)}
    IN IF cached.hang
       THEN [res |-> None, invoked |-> cached.invoked, hang |-> TRUE, files |-> fs]
       ELSE IF cached.res.ok
       THEN [res |-> cached.res, invoked |-> cached.invoked, hang |-> FALSE, files |-> fs]
       ELSE IF gen.spawn = "hang"
       THEN [res |-> None, invoked |-> inv, hang |-> TRUE, files |-> fs]
       ELSE IF gen.spawn = "err"
       THEN [res |-> Err("io"), invoked |-> inv, hang |-> FALSE, files |-> fs]
       ELSE IF path # None /\ io = "mkdir_err"
       THEN [res |-> Err("io"), invoked |-> inv, hang |-> FALSE, files |-> fs]
       ELSE IF path # None /\ io # "ok"
       THEN [res |-> Err("io"), invoked |-> inv, hang |-> FALSE,
             files |-> fs_write(fs, path, gen.stdout, io, clock)]
       ELSE [res |-> from_slice(gen.stdout), invoked |-> inv, hang |-> FALSE,
             files |-> IF path # None
                       THEN fs_write(fs, path, gen.stdout, "ok", clock)
                       ELSE fs]

IoOutcomes == {"ok", "mkdir_err", "create_err", "write_err"}

\* ------------------------------------------------------------------------
\* scan.rs
\* ------------------------------------------------------------------------
\* rust_decimal::Decimal: mantissa / 10^scale
Decimal(mantissa, scale) == [mantissa |-> mantissa, scale |-> scale]

CvssRecord(base, expl, impact) ==
    [source |-> "nvd", type |-> "Primary", version |-> "3.1", vector |-> "AV:N",
     metrics |-> [baseScore |-> base, exploitabilityScore |-> expl,
                  impactScore |-> impact]]

VulnerabilityOf(id, cvss) ==
    [id |-> id, severity |-> "High", urls |-> <<"u1", "u2">>,
     fix |-> [versions |-> <<"8.5.0">>, state |-> "not-fixed"], cvss |-> cvss]

\* the reports grype can print
EmptyReport == [matches |-> <<>>]
FullReport ==
    [matches |->
        <<[vulnerability |->
              VulnerabilityOf("CVE-1", <<CvssRecord(Decimal(75, 1), Decimal(39, 1),
                                                    Decimal(36, 1)),
                                         CvssRecord(Decimal(98, 1), Decimal(39, 1),
                                                    Decimal(59, 1))>>),
           artifact |-> [name |-> "curl"]],
          [vulnerability |-> VulnerabilityOf("CVE-2", <<>>),
           artifact |-> [name |-> "zlib"]]>>]
ScannerReports == {EmptyReport, FullReport}

\* grype -o json with the SBOM on stdin: spawn fails, the subprocess never
\* exits, the write to its stdin fails, waiting fails, or it prints stdout
ScannerOutcomes ==
    {[spawn |-> "err"], [spawn |-> "hang"],
     [spawn |-> "ok", write |-> "err"],
     [spawn |-> "ok", write |-> "ok", wait |-> "err"]}
    \cup {[spawn |-> "ok", write |-> "ok", wait |-> "ok", stdout |-> b] :
            b \in {Garbled, JsonText(EmptyObject, "pretty")}
                  \cup {JsonText(r, "pretty") : r \in ScannerReports}}

\* serde_json::from_slice into a Scan: the matches field is required
scan_from_slice(bytes) ==
    LET v == from_slice(bytes)
    IN IF ~v.ok THEN v
       ELSE IF "matches" \in DOMAIN v.value THEN v ELSE Err("missing field")

\* scan_single, had it left the scanner's own database update on
scan_single_auto_updating(source, sbom, out) ==
    LET inv == {[tool |-> "grype", stdin |-> to_vec(sbom), db_auto_update |-> TRUE]}
    IN IF out.spawn = "err" THEN [res |-> Err("io"), invoked |-> inv, hang |-> FALSE]
       ELSE IF out.spawn = "hang" THEN [res |-> None, invoked |-> inv, hang |-> TRUE]
       ELSE IF out.write = "err" THEN [res |-> Err("io"), invoked |-> inv, hang |-> FALSE]
       ELSE IF out.wait = "err" THEN [res |-> Err("io"), invoked |-> inv, hang |-> FALSE]
       ELSE [res |-> scan_from_slice(out.stdout), invoked |-> inv, hang |-> FALSE]

\* scan_single: the result, the commands run (a failed spawn included),
\* whether it is stuck
scan_single(source, sbom, out) ==
    LET inv == {[tool |-> "grype", stdin |-> to_vec(sbom), db_auto_update |-> FALSE]}
    IN IF out.spawn = "err" THEN [res |-> Err("io"), invoked |-> inv, hang |-> FALSE]
       ELSE IF out.spawn = "hang" THEN [res |-> None, invoked |-> inv, hang |-> TRUE]
       ELSE IF out.write = "err" THEN [res |-> Err("io"), invoked |-> inv, hang |-> FALSE]
       ELSE IF out.wait = "err" THEN [res |-> Err("io"), invoked |-> inv, hang |-> FALSE]
       ELSE [res |-> scan_from_slice(out.stdout), invoked |-> inv, hang |-> FALSE]

\* grype db update: spawn()?.wait().await? -- the exit status is dropped
RefreshOutcomes == {"spawn_err", "wait_err", "exit_nonzero", "exit_zero"}

\* does scan go on after the refresh (lines 13-21)
refresh_passes(outcome) == outcome \notin {"spawn_err", "wait_err"}

\* ------------------------------------------------------------------------
\* metrics.rs
\* ------------------------------------------------------------------------
\* impl From<Source> for SourceLabels
SourceLabels(source) ==
    IF source.type = "DockerImage"
    THEN [image |-> Some(source.name), id |-> Some(source.id), path |-> None]
    ELSE [image |-> None, id |-> None, path |-> Some(source.path)]

\* serde_json::from_value into an Sbom: packages is required, and so is the
\* name of every entry; versionInfo defaults to the empty string
sbom_from_value(v) ==
    IF "packages" \notin DOMAIN v THEN Err("missing field")
    ELSE IF \E k \in DOMAIN v.packages : "name" \notin DOMAIN v.packages[k]
    THEN Err("missing field")
    ELSE Ok([packages |->
               [k \in DOMAIN v.packages |->
                  [name |-> v.packages[k].name,
                   versionInfo |-> IF "versionInfo" \in DOMAIN v.packages[k]
                                   THEN v.packages[k].versionInfo ELSE ""]]])

\* Inc, had it set the counter to one instead of adding one
Inc_overwriting(family, labels) == (labels :> 1) @@ family

\* Family::get_or_create(labels).inc()
Inc(family, labels) ==
    IF labels \in DOMAIN family
    THEN [family EXCEPT ![labels] = @ + 1]
    ELSE family @@ (labels :> 1)

\* lines 50-62: the entries of one SBOM, in order
RECURSIVE count_packages(_, _, _)
count_packages(family, source, packages) ==
    IF packages = <<>> THEN family
    ELSE LET entry == Head(packages)
         IN count_packages(
                IF entry.versionInfo = "" THEN family
                ELSE Inc(family, [software |-> entry.name,
                                  version |-> entry.versionInfo,
                                  source |-> SourceLabels(source)]),
                source, Tail(packages))

\* lines 48-63: the SBOMs in iteration order; the first document that is
\* not an Sbom ends the export with its error
RECURSIVE count_sboms(_, _, _)
count_sboms(family, sboms, order) ==
    IF order = <<>> THEN Ok(family)
    ELSE LET sbom == sbom_from_value(sboms[Head(order)])
         IN IF ~sbom.ok THEN sbom
            ELSE count_sboms(count_packages(family, Head(order), sbom.value.packages),
                             sboms, Tail(order))

\* Decimal::to_string
DecimalToString(d) ==
    IF d.scale = 0 THEN <<d.mantissa>>
    ELSE <<d.mantissa \div (10 ^ d.scale), ".", d.mantissa % (10 ^ d.scale)>>

\* [String]::join(sep)
RECURSIVE Join(_, _)
Join(strs, sep) ==
    IF strs = <<>> THEN <<>>
    ELSE IF Len(strs) = 1 THEN <<strs[1]>>
    ELSE <<strs[1], sep>> \o Join(Tail(strs), sep)

\* FixState: deserialised from kebab-case, displayed with its Debug name
FixStateToString(state) ==
    CASE state = "fixed" -> "Fixed"
      [] state = "not-fixed" -> "NotFixed"
      [] state = "wont-fix" -> "WontFix"
      [] OTHER -> "Unknown"

\* lines 36-46
cvss_fallback ==
    [source |-> "", type |-> "", version |-> "", vector |-> "",
     metrics |-> [baseScore |-> Decimal(0, 1), exploitabilityScore |-> Decimal(0, 1),
                  impactScore |-> Decimal(0, 1)]]

\* [T]::first().unwrap_or(fallback)
FirstOr(list, fallback) == IF list = <<>> THEN fallback ELSE list[1]

\* String::from("undefined"): a label value is a sequence of tokens, as
\* the ones DecimalToString makes
Undefined == <<"undefined">>

\* cvss_labels, had it taken the scores of the fallback record for an
\* empty list
cvss_labels_of_first_or_fallback(cvss) ==
    <<DecimalToString(FirstOr(cvss, cvss_fallback).metrics.baseScore),
      DecimalToString(FirstOr(cvss, cvss_fallback).metrics.exploitabilityScore),
      DecimalToString(FirstOr(cvss, cvss_fallback).metrics.impactScore)>>

\* lines 74-108
cvss_labels(cvss) ==
    IF cvss # <<>>
    THEN <<DecimalToString(FirstOr(cvss, cvss_fallback).metrics.baseScore),
           DecimalToString(FirstOr(cvss, cvss_fallback).metrics.exploitabilityScore),
           DecimalToString(FirstOr(cvss, cvss_fallback).metrics.impactScore)>>
    ELSE <<Undefined, Undefined, Undefined>>

\* lines 67-123: the label set of one (vulnerability, artifact) pair
ScanLabels(source, entry, today) ==
    LET labels == SourceLabels(source)
        scores == cvss_labels(entry.vulnerability.cvss)
    IN [source |-> labels,
        cvss_base_score |-> scores[1],
        cvss_exploitability_score |-> scores[2],
        cvss_impact_score |-> scores[3],
        title |-> <<IF labels.image = None THEN "" ELSE labels.image.some, " ",
                    entry.artifact.name, ": ", entry.vulnerability.id>>,
        severity |-> entry.vulnerability.severity,
        urls |-> Join(entry.vulnerability.urls, ", "),
        cve |-> entry.vulnerability.id,
        fixed |-> FixStateToString(entry.vulnerability.fix.state),
        fixed_versions |-> Join(entry.vulnerability.fix.versions, ", "),
        software |-> entry.artifact.name,
        scan_date |-> today]

\* lines 66-125: the matches of one report, in order
RECURSIVE count_matches(_, _, _, _)
count_matches(family, source, matches, today) ==
    IF matches = <<>> THEN family
    ELSE count_matches(Inc(family, ScanLabels(source, Head(matches), today)),
                       source, Tail(matches), today)

\* lines 65-126: the reports in iteration order
RECURSIVE count_scans(_, _, _, _)
count_scans(family, scans, order, today) ==
    IF order = <<>> THEN family
    ELSE count_scans(count_matches(family, Head(order), scans[Head(order)].matches, today),
                     scans, Tail(order), today)

\* prometheus_client::encoding::text::encode of the registry
encode(syft_metrics, grype_metrics) ==
    [kind |-> "prom", sbom |-> syft_metrics, vulnerability_scans |-> grype_metrics]

\* Utc::now().date_naive().to_string()
Today(clock) == <<"day", clock>>

ExportIoOutcomes == {"ok", "mkdir_err", "create_err", "write_err"}

\* File::create(path): the file exists and is empty afterwards
fs_create(fs, path, clock) == [fs EXCEPT ![path] = FileOf(EmptyBytes, clock)]

\* export_metrics: the result and the file system it leaves.  sbomOrder and
\* scanOrder are the iteration orders of the two hash maps.
export_metrics(cfg, sboms, scans, fs, io, sbomOrder, scanOrder, clock) ==
    LET path == metrics_path(cfg)
    IN IF io \in {"mkdir_err", "create_err"} THEN [res |-> Err("io"), files |-> fs]
       ELSE LET created == fs_create(fs, path, clock)
                syft_metrics == count_sboms(<<>>, sboms, sbomOrder)
            IN IF ~syft_metrics.ok THEN [res |-> syft_metrics, files |-> created]
               ELSE LET grype_metrics == count_scans(<<>>, scans, scanOrder, Today(clock))
                        buffer == encode(syft_metrics.value, grype_metrics)
                    IN IF io = "write_err"
                       THEN [res |-> Err("io"),
                             files |-> [created EXCEPT ![path].data = [kind |-> "partial"]]]
                       ELSE [res |-> Ok(None),
                             files |-> [created EXCEPT ![path].data = buffer]]

\* ------------------------------------------------------------------------
\* sbom.rs: clean
\* ------------------------------------------------------------------------
\* now.duration_since(accessed).unwrap_or(0)
DurationSince(clock, accessed) == IF clock >= accessed THEN clock - accessed ELSE 0

IsPrefix(p, q) == Len(p) <= Len(q) /\ SubSeq(q, 1, Len(p)) = p

\* line 155: metadata.is_file(); a directory entry has no data
is_file(entry) == "data" \in DOMAIN entry

\* old_files, had the age of a file not been looked at
old_files_of_any_age(cfg, fs, clock) ==
    {path \in DOMAIN fs :
        /\ IsPrefix(cfg.base_path, path)
        /\ fs[path] # Absent
        /\ is_file(fs[path])
        /\ Extension(path) = Chars_json
        /\ fs[path].atime.ok}

\* old_files, had a file of exactly cache_duration been kept
old_files_strictly_older(cfg, fs, clock) ==
    {path \in DOMAIN fs :
        /\ IsPrefix(cfg.base_path, path)
        /\ fs[path] # Absent
        /\ is_file(fs[path])
        /\ Extension(path) = Chars_json
        /\ fs[path].atime.ok
        /\ DurationSince(clock, fs[path].atime.value) > cfg.cache_duration}

\* lines 151-172: the files the walk selects for deletion
old_files(cfg, fs, clock) ==
    {path \in DOMAIN fs :
        /\ IsPrefix(cfg.base_path, path)
        /\ fs[path] # Absent
        /\ is_file(fs[path])
        /\ Extension(path) = Chars_json
        /\ fs[path].atime.ok
        /\ DurationSince(clock, fs[path].atime.value) >= cfg.cache_duration}

\* clean, had it gone on to the remaining files after a removal failed
clean_best_effort(cfg, fs, clock, walk, failAt) ==
    LET removed == {walk[k] : k \in DOMAIN walk \ {failAt}}
    IN [res |-> IF failAt <= Len(walk) THEN Err("io") ELSE Ok(None),
        files |-> [path \in DOMAIN fs |-> IF path \in removed THEN Absent ELSE fs[path]]]

\* lines 173-176: remove the files in walk order; the first removal that
\* fails (failAt, if within the walk) ends the loop with its error
clean(cfg, fs, clock, walk, failAt) ==
    LET removed == {walk[k] : k \in 1..(failAt - 1)} \cap Range(walk)
    IN [res |-> IF failAt <= Len(walk) THEN Err("io") ELSE Ok(None),
        files |-> [path \in DOMAIN fs |-> IF path \in removed THEN Absent ELSE fs[path]]]

\* ------------------------------------------------------------------------
\* State
\* ------------------------------------------------------------------------
VARIABLES
    config,     \* the Config read at start-up
    arch,       \* std::env::consts::ARCH of the build
    sources,    \* the batch: the Vec<Source> handed to create_sboms
    files,      \* the file system: path -> file or Absent
    now,        \* SystemTime::now()
    pc,         \* where main (bin/ssce.rs) is
    idx,        \* create_sboms: index of the next source of the for loop
    attempts,   \* create_sboms: source -> result of its resolution, once it returned
    sboms,      \* the HashMap<Source, Value> create_sboms builds and returns
    refresh,    \* scan: outcome of the database refresh, "none" before it
    todo,       \* scan: the entries of sboms the for loop has not reached yet
    scanned,    \* scan: source -> result of its scan_single, once it returned
    scans,      \* the HashMap<Source, Scan> scan builds and returns
    invoked,    \* every command run so far
    hung,       \* the source whose external tool never returns, once awaited
    ret,        \* what each stage returned: "none" (not yet), "Ok" or "Err"
    refreshes,  \* scan: how many times the database refresh was started
    read_errors,\* create_sboms: the source resolved last, if its cache file could not be opened or read
    attested,   \* create_sboms, passive mode: the source resolved last -> what its attestation lookup printed
    cycle,      \* how many times main has been started (each run is one cycle)
    started,    \* SystemTime::now() when the current run of main started
    cleaned,    \* clean: the order in which the walk yielded the old files, and the removal that failed
    containers, \* get_docker_images: the container records the Docker daemon listed
    child       \* scan_single: the grype subprocess and where the task that started it is

vars == <<config, arch, sources, files, now, pc, idx, attempts, sboms, refresh,
          todo, scanned, scans, invoked, hung, ret,
          refreshes,
          read_errors,
          attested,
          cycle,
          started,
          cleaned,
          containers,
          child>>

Stages == {"create_sboms", "scan", "export_metrics", "clean"}

CachePaths ==
    {sbom_path([base_path |-> BasePath], DockerImage("any", id)) : id \in ImageIds}
\* the image id a cache path belongs to
IdOfPath(path) == CHOOSE id \in ImageIds :
                    sbom_path([base_path |-> BasePath], DockerImage("any", id)) = path
MetricsPath == metrics_path([base_path |-> BasePath, metrics_path |-> None])
Paths == CachePaths \cup {MetricsPath}

\* the clock at start-up, and the last-access times a file found at
\* start-up can have: one second short of cache_duration ago, or exactly
\* cache_duration ago
Now0 == CacheDuration
InitAtimes == {Now0 - CacheDuration, Now0 - CacheDuration + 1}

\* what an earlier run can have left in the cache file of an image: the
\* stdout of syft, garbled or an SPDX document
InitCacheData(id) ==
    {Garbled,
     JsonText(SpdxDoc(IF id = ImageIdA THEN "nginx" ELSE "redis", "syft"), "pretty")}


\* the metrics file an earlier run wrote
PreviousMetrics == encode(<<>>, <<>>)

\* the cache directories an earlier run can have left
InitCaches ==
    {cache \in [CachePaths -> {Absent} \cup
                   {FileOf(d, t) : d \in UNION {InitCacheData(id) : id \in ImageIds},
                                   t \in InitAtimes}] :
        \A p \in CachePaths :
            cache[p] # Absent => cache[p].data \in InitCacheData(IdOfPath(p))}

Configs ==
    {[base_path |-> BasePath, metrics_path |-> None,
      cache_duration |-> CacheDuration, generate_sboms |-> g] : g \in BOOLEAN}

\* nothing has run yet
Idle ==
    /\ now = Now0
    /\ idx = 1
    /\ attempts = <<>>
    /\ refresh = "none"
    /\ todo = {}
    /\ scanned = <<>>
    /\ invoked = {}
    /\ hung = None
    /\ ret = [s \in Stages |-> "none"]
    /\ refreshes = 0
    /\ read_errors = {}
    /\ attested = <<>>
    /\ cycle = 1
    /\ started = Now0
    /\ cleaned = None
    /\ containers = <<>>
    /\ child = None

\* create_sboms is called with any batch, on any host, over any cache
\* (it never reads an access time: the files found have reached
\* cache_duration)
InitSbom ==
    /\ config \in Configs
    /\ arch \in HostArchs
    /\ sources \in InjectiveSeqs(SourceUniverse, MaxSources)
    /\ \E cache \in {c \in InitCaches :
                        \A p \in CachePaths :
                            c[p] # Absent => c[p].atime = Ok(Now0 - CacheDuration)} :
          files = cache @@ (MetricsPath :> FileOf(PreviousMetrics, Now0 - 1))
    /\ pc = "create_sboms"
    /\ Idle
    /\ sboms = <<>>
    /\ scans = <<>>

\* main starts on an x86_64 host whose cache holds, for each image, nothing
\* or a document
Init ==
    /\ InitSbom
    /\ arch = "x86_64"
    /\ \A p \in CachePaths : files[p] # Absent => files[p].data.kind = "json"

\* ------------------------------------------------------------------------
\* create_sboms (sbom.rs lines 32-60)
\* ------------------------------------------------------------------------
\* The outcomes of the environment a resolution can meet: an attestation
\* lookup only happens for a cacheable source without a cache file, the
\* cache file is only opened when it exists, and only a cacheable source
\* writes to the cache.
AttestationChoices(cfg, source, fs) ==
    IF sbom_path(cfg, source) # None /\ fs[sbom_path(cfg, source)] = Absent
    THEN AttestationOutcomes(scan_target_of(source))
    ELSE {[spawn |-> "err"]}
ReadChoices(cfg, source, fs) ==
    IF sbom_path(cfg, source) # None /\ fs[sbom_path(cfg, source)] # Absent
    THEN BOOLEAN
    ELSE {TRUE}
\* syft is only run when the cache lookup returned an error
GeneratorChoices(cfg, source, fs, hostArch, att, readOk) ==
    LET path == sbom_path(cfg, source)
        cached == get_sbom(scan_target_of(source), path, fs, hostArch, att, readOk)
    IN IF path # None /\ (cached.hang \/ cached.res.ok)
       THEN {[spawn |-> "err"]}
       ELSE GeneratorOutcomes(scan_target_of(source))
\* the cache is only written once syft has returned its output
IoChoices(cfg, source, gen) ==
    IF sbom_path(cfg, source) # None /\ gen.spawn = "ok" THEN IoOutcomes ELSE {"ok"}

\* the source of the latest resolution, when its cache file is there but
\* could not be opened or read (lines 66-67)
note_read_error(cfg, source, fs, readOk) ==
    IF sbom_path(cfg, source) # None /\ fs[sbom_path(cfg, source)] # Absent /\ ~readOk
    THEN {source}
    ELSE {}

\* what the attestation lookup of the latest resolution printed, when it
\* made one (lines 71-86)
note_attestation(cfg, source, fs, att) ==
    IF sbom_path(cfg, source) # None /\ fs[sbom_path(cfg, source)] = Absent
    THEN (source :> att)
    ELSE <<>>

\* HashMap::insert
Insert(map, key, value) == (key :> value) @@ map

\* collect_sbom, had a source whose resolution failed been given an empty
\* document
collect_sbom_keeping_failures(map, source, res) ==
    IF res.ok THEN Insert(map, source, res.value) ELSE Insert(map, source, EmptyObject)

\* collect_sbom, had an error thrown away the documents collected so far
collect_sbom_abandoning(map, source, res) ==
    IF res.ok THEN Insert(map, source, res.value) ELSE <<>>

\* lines 40-45 and 50-55: an error is printed, a document is inserted
collect_sbom(map, source, res) ==
    IF res.ok THEN Insert(map, source, res.value) ELSE map

\* the commands a task ran, each with the source it was run for
By(source, commands) == {[cmd |-> c, by |-> source] : c \in commands}

\* one pass of the for loop in active mode: create_sbom(source).await, then
\* log the error or insert the document
CreateSbomsActive ==
    /\ pc = "create_sboms" /\ hung = None /\ idx <= Len(sources)
    /\ config.generate_sboms
    /\ LET source == sources[idx]
       IN \E att \in AttestationChoices(config, source, files),
             readOk \in ReadChoices(config, source, files) :
          \E gen \in GeneratorChoices(config, source, files, arch, att, readOk) :
          \E io \in IoChoices(config, source, gen) :
            LET r == create_sbom(config, source, files, arch, att, gen, io, readOk, now)
            IN /\ invoked' = invoked \cup By(source, r.invoked)
               /\ files' = r.files
               /\ IF r.hang
                  THEN /\ hung' = source
                       /\ UNCHANGED <<idx, attempts, sboms, read_errors>>
                  ELSE /\ hung' = hung
                       /\ idx' = idx + 1
                       /\ attempts' = (source :> r.res) @@ attempts
                       /\ sboms' = collect_sbom(sboms, source, r.res)
                       /\ read_errors' = note_read_error(config, source,
                                                           files, readOk)
    /\ UNCHANGED <<config, arch, sources, now, pc, refresh, todo, scanned, scans, ret>>
    /\ UNCHANGED <<refreshes, attested>>
    /\ UNCHANGED <<cycle, started>>
    /\ UNCHANGED cleaned
    /\ UNCHANGED containers
    /\ UNCHANGED child

\* one pass of the for loop in passive mode: get_sbom for a source that has
\* a cache path, nothing for one that has none
CreateSbomsPassive ==
    /\ pc = "create_sboms" /\ hung = None /\ idx <= Len(sources)
    /\ ~config.generate_sboms
    /\ LET source == sources[idx]
           path == sbom_path(config, source)
       IN IF source.type = "DockerImage" /\ path # None
          THEN \E att \in AttestationChoices(config, source, files),
                  readOk \in ReadChoices(config, source, files) :
                 LET r == get_sbom(source.name, path, files, arch, att, readOk)
                 IN /\ invoked' = invoked \cup By(source, r.invoked)
                    /\ IF r.hang
                       THEN /\ hung' = source
                            /\ UNCHANGED <<idx, attempts, sboms, read_errors, attested>>
                       ELSE /\ hung' = hung
                            /\ idx' = idx + 1
                            /\ attempts' = (source :> r.res) @@ attempts
                            /\ sboms' = collect_sbom(sboms, source, r.res)
                            /\ read_errors' = note_read_error(config, source,
                                                           files, readOk)
                            /\ attested' = note_attestation(config, source, files, att)
          ELSE /\ idx' = idx + 1
               /\ UNCHANGED <<invoked, hung, attempts, sboms, read_errors, attested>>
    /\ UNCHANGED <<config, arch, sources, files, now, pc, refresh, todo, scanned,
                   scans, ret>>
    /\ UNCHANGED refreshes
    /\ UNCHANGED <<cycle, started>>
    /\ UNCHANGED cleaned
    /\ UNCHANGED containers
    /\ UNCHANGED child

\* the loop is over: Ok(sboms), and main goes on to scan
CreateSbomsReturn ==
    /\ pc = "create_sboms" /\ hung = None /\ idx > Len(sources)
    /\ ret' = [ret EXCEPT !["create_sboms"] = "Ok"]
    /\ pc' = "scan"
    /\ UNCHANGED <<config, arch, sources, files, now, idx, attempts, sboms, refresh,
                   todo, scanned, scans, invoked, hung>>
    /\ UNCHANGED refreshes
    /\ UNCHANGED read_errors
    /\ UNCHANGED attested
    /\ UNCHANGED <<cycle, started>>
    /\ UNCHANGED cleaned
    /\ UNCHANGED containers
    /\ UNCHANGED child

\* ------------------------------------------------------------------------
\* scan (scan.rs lines 13-37)
\* ------------------------------------------------------------------------
\* collect_scan, had an error thrown away the reports collected so far
collect_scan_abandoning(map, source, res) ==
    IF res.ok THEN Insert(map, source, res.value) ELSE <<>>

\* lines 27-34: an error is printed, a report is inserted
collect_scan(map, source, res) ==
    IF res.ok THEN Insert(map, source, res.value) ELSE map

\* grype db update; a failure to spawn or to wait is returned as the error
\* of scan, which main returns in turn
ScanRefresh ==
    /\ pc = "scan"
    /\ \E outcome \in RefreshOutcomes :
         /\ refresh' = outcome
         /\ IF refresh_passes(outcome)
            THEN /\ pc' = "scan_loop"
                 /\ todo' = DOMAIN sboms
                 /\ ret' = ret
            ELSE /\ pc' = "done"
                 /\ todo' = todo
                 /\ ret' = [ret EXCEPT !["scan"] = "Err"]
    /\ invoked' = invoked \cup By(None, {[tool |-> "grype db update"]})
    /\ UNCHANGED <<config, arch, sources, files, now, idx, attempts, sboms, scanned,
                   scans, hung>>
    /\ refreshes' = refreshes + 1
    /\ UNCHANGED read_errors
    /\ UNCHANGED attested
    /\ UNCHANGED <<cycle, started>>
    /\ UNCHANGED cleaned
    /\ UNCHANGED containers
    /\ UNCHANGED child

\* one pass of the for loop over the map, in whatever order the map yields
\* its entries: scan_single(source, sbom).await, then log or insert
ScanStep ==
    /\ pc = "scan_loop" /\ hung = None
    /\ \E source \in todo, out \in ScannerOutcomes :
         LET r == scan_single(source, sboms[source], out)
         IN /\ invoked' = invoked \cup By(source, r.invoked)
            /\ IF r.hang
               THEN /\ hung' = source
                    /\ UNCHANGED <<todo, scanned, scans>>
               ELSE /\ hung' = hung
                    /\ todo' = todo \ {source}
                    /\ scanned' = (source :> r.res) @@ scanned
                    /\ scans' = collect_scan(scans, source, r.res)
    /\ UNCHANGED <<config, arch, sources, files, now, pc, idx, attempts, sboms,
                   refresh, ret>>
    /\ UNCHANGED refreshes
    /\ UNCHANGED read_errors
    /\ UNCHANGED attested
    /\ UNCHANGED <<cycle, started>>
    /\ UNCHANGED cleaned
    /\ UNCHANGED containers
    /\ UNCHANGED child

\* the loop is over: Ok(scans), and main goes on to export_metrics
ScanReturn ==
    /\ pc = "scan_loop" /\ hung = None /\ todo = {}
    /\ ret' = [ret EXCEPT !["scan"] = "Ok"]
    /\ pc' = "export_metrics"
    /\ UNCHANGED <<config, arch, sources, files, now, idx, attempts, sboms, refresh,
                   todo, scanned, scans, invoked, hung>>
    /\ UNCHANGED refreshes
    /\ UNCHANGED read_errors
    /\ UNCHANGED attested
    /\ UNCHANGED <<cycle, started>>
    /\ UNCHANGED cleaned
    /\ UNCHANGED containers
    /\ UNCHANGED child

\* ------------------------------------------------------------------------
\* export_metrics (metrics.rs lines 19-132) and clean (sbom.rs lines 148-177)
\* as main calls them
\* ------------------------------------------------------------------------
\* the orders in which a hash map can yield its keys
Orders(map) == {o \in InjectiveSeqs(DOMAIN map, Cardinality(DOMAIN map)) :
                  Len(o) = Cardinality(DOMAIN map)}

ExportMetrics ==
    /\ pc = "export_metrics"
    /\ \E io \in ExportIoOutcomes, sbomOrder \in Orders(sboms), scanOrder \in Orders(scans) :
         LET r == export_metrics(config, sboms, scans, files, io, sbomOrder, scanOrder, now)
         IN /\ files' = r.files
            /\ ret' = [ret EXCEPT !["export_metrics"] = IF r.res.ok THEN "Ok" ELSE "Err"]
            /\ pc' = IF r.res.ok THEN "clean" ELSE "done"
    /\ UNCHANGED <<config, arch, sources, now, idx, attempts, sboms, refresh, todo,
                   scanned, scans, invoked, hung>>
    /\ UNCHANGED refreshes
    /\ UNCHANGED read_errors
    /\ UNCHANGED attested
    /\ UNCHANGED <<cycle, started>>
    /\ UNCHANGED cleaned
    /\ UNCHANGED containers
    /\ UNCHANGED child

Clean ==
    /\ pc = "clean"
    /\ LET old == old_files(config, files, now)
       IN \E walk \in {o \in InjectiveSeqs(old, Cardinality(old)) :
                         Len(o) = Cardinality(old)},
             failAt \in 1..(Cardinality(old) + 1) :
            LET r == clean(config, files, now, walk, failAt)
            IN /\ files' = r.files
               /\ ret' = [ret EXCEPT !["clean"] = IF r.res.ok THEN "Ok" ELSE "Err"]
               /\ cleaned' = [walk |-> walk, failAt |-> failAt]
    /\ pc' = "done"
    /\ UNCHANGED <<config, arch, sources, now, idx, attempts, sboms, refresh, todo,
                   scanned, scans, invoked, hung>>
    /\ UNCHANGED refreshes
    /\ UNCHANGED read_errors
    /\ UNCHANGED attested
    /\ UNCHANGED <<cycle, started>>
    /\ UNCHANGED containers
    /\ UNCHANGED child

\* ------------------------------------------------------------------------
\* Specifications
\* ------------------------------------------------------------------------
\* main (bin/ssce.rs): create_sboms, scan, export_metrics, clean
Next ==
    \/ CreateSbomsActive
    \/ CreateSbomsPassive
    \/ CreateSbomsReturn
    \/ ScanRefresh
    \/ ScanStep
    \/ ScanReturn
    \/ ExportMetrics
    \/ Clean

Spec == Init /\ [][Next]_vars

\* create_sboms on its own
NextSbom ==
    \/ CreateSbomsActive
    \/ CreateSbomsPassive
    \/ CreateSbomsReturn

SbomSpec == InitSbom /\ [][NextSbom]_vars

\* the documents create_sboms can return for a source
SbomDocs(source) ==
    LET scan_target == scan_target_of(source)
    IN {SpdxDoc(scan_target, "syft"), BareDoc(scan_target, "syft")}
       \cup IF source.type = "DockerImage"
            THEN {SpdxDoc(scan_target, "buildkit")}
            ELSE {}

\* the maps create_sboms can return
SbomMaps ==
    UNION {{m \in [keys -> UNION {SbomDocs(s) : s \in keys}] :
              \A s \in keys : m[s] \in SbomDocs(s)} :
           keys \in {k \in SUBSET SourceUniverse : Cardinality(k) <= MaxSources}}

\* the maps scan can return for the keys of a map of SBOMs
ScanMaps(keys) == UNION {[k -> ScannerReports] : k \in SUBSET keys}

\* scan on its own, called with any map of SBOMs (active mode can yield
\* each of the documents)
InitScan ==
    /\ config \in {c \in Configs : c.generate_sboms}
    /\ arch = "x86_64"
    /\ sources = <<>>
    /\ files = [p \in Paths |-> Absent]
    /\ pc = "scan"
    /\ Idle
    /\ sboms \in SbomMaps
    /\ scans = <<>>

NextScan ==
    \/ ScanRefresh
    \/ ScanStep
    \/ ScanReturn

ScanSpec == InitScan /\ [][NextScan]_vars

\* a package list that names a package twice, and has an entry without
\* versionInfo
Packages2 ==
    <<[name |-> "zlib", versionInfo |-> "1.3"], [name |-> "curl", versionInfo |-> "8.4.0"],
      [name |-> "zlib"], [name |-> "zlib", versionInfo |-> "1.3"]>>

\* the maps export_metrics can be called with: the documents of SbomDocs,
\* and a document with the package list above
MetricsSbomMaps ==
    LET docs(s) == SbomDocs(s)
                   \cup {[name |-> scan_target_of(s), creator |-> "syft",
                          packages |-> Packages2]}
    IN UNION {{m \in [keys -> UNION {docs(s) : s \in keys}] :
                 \A s \in keys : m[s] \in docs(s)} :
              keys \in {k \in SUBSET SourceUniverse : Cardinality(k) <= MaxSources}}

\* export_metrics on its own, called with any two maps over a metrics file
\* an earlier run wrote
InitMetrics ==
    /\ config \in {c \in Configs : c.generate_sboms}
    /\ arch = "x86_64"
    /\ sources = <<>>
    /\ files = [p \in Paths |-> IF p = MetricsPath
                                THEN FileOf(PreviousMetrics, Now0 - 1)
                                ELSE Absent]
    /\ pc = "export_metrics"
    /\ Idle
    /\ sboms \in MetricsSbomMaps
    /\ scans \in ScanMaps(DOMAIN sboms)

NextMetrics == ExportMetrics

MetricsSpec == InitMetrics /\ [][NextMetrics]_vars


\* ------------------------------------------------------------------------
\* clean alone, over any content of the cache directory
\* ------------------------------------------------------------------------
\* a document next to base_path, one directly under it, and one in a
\* directory of its own under it
OutsidePath == <<<<"d">>, <<"o", "l", "d", ".", "j", "s", "o", "n">>>>
StrayPath == BasePath \o <<<<"o", "l", "d", ".", "j", "s", "o", "n">>>>
NestedPath == BasePath \o <<<<"t", "m", "p">>, <<"o", "l", "d", ".", "j", "s", "o", "n">>>>
CleanPaths == Paths \cup {OutsidePath, StrayPath, NestedPath}

\* the clock when clean runs, and the last-access times a file can have:
\* one second more than cache_duration ago, exactly cache_duration ago,
\* one second less, and one second in the future
CleanNow == CacheDuration + 1
CleanAtimes ==
    {CleanNow - CacheDuration - 1, CleanNow - CacheDuration,
     CleanNow - CacheDuration + 1, CleanNow + 1}

\* what can be found at a path: nothing, a regular file whose access time
\* is known or not, or a directory
CleanEntries ==
    {Absent}
    \cup {[data |-> PreviousMetrics, atime |-> Ok(t)] : t \in CleanAtimes}
    \cup {[data |-> PreviousMetrics, atime |-> Err("unsupported")]}
    \cup {[dir |-> TRUE, atime |-> Ok(0)]}

InitClean ==
    /\ config = [base_path |-> BasePath, metrics_path |-> None,
                 cache_duration |-> CacheDuration, generate_sboms |-> TRUE]
    /\ arch = "x86_64"
    /\ sources = <<>>
    /\ files \in [CleanPaths -> CleanEntries]
    /\ now = CleanNow
    /\ pc = "clean"
    /\ idx = 1
    /\ attempts = <<>>
    /\ sboms = <<>>
    /\ refresh = "exit_zero"
    /\ todo = {}
    /\ scanned = <<>>
    /\ scans = <<>>
    /\ invoked = {}
    /\ hung = None
    /\ ret = [s \in Stages |-> IF s = "clean" THEN "none" ELSE "Ok"]
    /\ refreshes = 1
    /\ read_errors = {}
    /\ attested = <<>>
    /\ cycle = 1
    /\ started = CleanNow
    /\ cleaned = None
    /\ containers = <<>>
    /\ child = None

NextClean ==
    \/ Clean

CleanSpec == InitClean /\ [][NextClean]_vars


\* ------------------------------------------------------------------------
\* docker.rs: get_docker_images
\* ------------------------------------------------------------------------
MaxContainers == 3

\* Option::unwrap_or_default, the default of the type given
unwrap_or_default(opt, default) == IF opt = None THEN default ELSE opt.some

\* config.rs lines 54-61: impl From<ContainerSummary> for Source
SourceFrom(value) ==
    DockerImage(unwrap_or_default(value.image, ""),
                unwrap_or_default(value.image_id, <<>>))

\* unique, had it kept the last occurrence of an element
RECURSIVE unique_keeping_last(_)
unique_keeping_last(seq) ==
    IF seq = <<>> THEN <<>>
    ELSE IF Head(seq) \in Range(Tail(seq))
         THEN unique_keeping_last(Tail(seq))
         ELSE <<Head(seq)>> \o unique_keeping_last(Tail(seq))

\* Itertools::unique: the elements in order, each dropped when it has
\* been seen before
RECURSIVE unique(_)
unique(seq) ==
    IF seq = <<>> THEN <<>>
    ELSE LET front == unique(SubSeq(seq, 1, Len(seq) - 1))
             last == seq[Len(seq)]
         IN IF last \in Range(front) THEN front ELSE Append(front, last)

\* lines 20-26: .iter().map(|v| (*v).clone().into()).unique().collect()
get_docker_images(summaries) ==
    unique([k \in DOMAIN summaries |-> SourceFrom(summaries[k])])

\* the ContainerSummary records the daemon can list: image and image_id
\* are optional
ContainerSummaries ==
    {[image |-> i, image_id |-> d] :
        i \in {None, Some("nginx"), Some("redis")},
        d \in {None, Some(ImageIdA), Some(ImageIdB)}}

RECURSIVE SeqsUpTo(_, _)
SeqsUpTo(S, n) ==
    IF n = 0 THEN {<<>>}
    ELSE LET shorter == SeqsUpTo(S, n - 1)
         IN shorter \cup {Append(q, x) : q \in {r \in shorter : Len(r) = n - 1}, x \in S}

\* main has read its config and asks the daemon for the containers
InitDocker ==
    /\ config \in Configs
    /\ arch = "x86_64"
    /\ sources = <<>>
    /\ files = [p \in Paths |-> Absent]
    /\ pc = "get_docker_images"
    /\ Idle
    /\ sboms = <<>>
    /\ scans = <<>>

\* main line 22: the daemon cannot be reached or the listing fails, and
\* main returns the error; or the listing becomes the batch
GetDockerImages ==
    /\ pc = "get_docker_images"
    /\ \E listing \in {Err("docker")} \cup {Ok(l) : l \in SeqsUpTo(ContainerSummaries, MaxContainers)} :
          IF listing.ok
          THEN /\ containers' = listing.value
               /\ sources' = get_docker_images(listing.value)
               /\ pc' = "create_sboms"
          ELSE /\ pc' = "failed"
               /\ UNCHANGED <<containers, sources>>
    /\ UNCHANGED <<config, arch, files, now, idx, attempts, sboms, refresh, todo,
                   scanned, scans, invoked, hung, ret, refreshes, read_errors,
                   attested, cycle, started, cleaned>>
    /\ UNCHANGED child

NextDocker ==
    \/ GetDockerImages

DockerSpec == InitDocker /\ [][NextDocker]_vars


\* ------------------------------------------------------------------------
\* scan.rs: scan_single step by step (lines 40-65), with the pipe to the
\* standard input of grype
\* ------------------------------------------------------------------------
\* the most bytes serde_json::to_vec(&sbom) yields, and the bytes the pipe
\* holds before a write to it has to wait
MaxBytes == 2
PipeCapacity == 1

\* what the subprocess does with its standard input: it reads it to
\* end-of-file, prints its report and exits; or it never reads nor exits
ScannerKinds == {"reads_to_eof", "stalls"}

\* lines 42-49: Command::new("grype")...stdin(piped).stdout(piped).spawn()
\* and line 55, child.stdin.take().unwrap(): the task holds the write end
spawned(source, bytes, kind) ==
    [source |-> source, pos |-> "write", stdin |-> "open", left |-> bytes,
     pipe |-> 0, process |-> "running", kind |-> kind, stdout |-> EmptyBytes]

\* the end of the block of lines 53-57, had stdin been a variable of the
\* function body: it lives on while the task waits
keep_stdin(c) == [c EXCEPT !.pos = "wait"]

\* line 57: the block ends and stdin is dropped, which closes the pipe
drop_stdin(c) == [c EXCEPT !.stdin = "closed", !.pos = "wait"]

\* line 56, `?`: the function returns from inside the block; stdin is
\* dropped with it
fail_write(c) == [c EXCEPT !.stdin = "closed", !.pos = "returned"]

\* scan_single is called for one of the SBOMs
InitSingle ==
    /\ config \in {c \in Configs : c.generate_sboms}
    /\ arch = "x86_64"
    /\ sources = <<>>
    /\ files = [p \in Paths |-> Absent]
    /\ pc = "scan_single"
    /\ Idle
    /\ sboms \in SbomMaps \ {<<>>}
    /\ scans = <<>>

\* lines 42-49 and 55
SingleSpawn ==
    /\ pc = "scan_single" /\ child = None
    /\ \E source \in DOMAIN sboms, ok \in BOOLEAN,
          bytes \in 1..MaxBytes, kind \in ScannerKinds :
          /\ invoked' = invoked \cup By(source, scan_single(source, sboms[source],
                                                           [spawn |-> "err"]).invoked)
          /\ IF ok
             THEN /\ child' = spawned(source, bytes, kind)
                  /\ UNCHANGED <<scanned, pc>>
             ELSE /\ scanned' = (source :> scan_single(source, sboms[source],
                                                      [spawn |-> "err"]).res) @@ scanned
                  /\ pc' = "done"
                  /\ UNCHANGED child
    /\ UNCHANGED <<config, arch, sources, files, now, idx, attempts, sboms, refresh,
                   todo, scans, hung, ret, refreshes, read_errors, attested, cycle,
                   started, cleaned, containers>>

\* line 56, write_all: one more byte goes into the pipe when it has room;
\* the write fails when the subprocess is gone
SingleWrite ==
    /\ pc = "scan_single" /\ child # None
    /\ child.pos = "write" /\ child.left > 0
    /\ IF child.process = "exited"
       THEN /\ child' = fail_write(child)
            /\ scanned' = (child.source :>
                             scan_single(child.source, sboms[child.source],
                                         [spawn |-> "ok", write |-> "err"]).res) @@ scanned
            /\ pc' = "done"
       ELSE /\ child.pipe < PipeCapacity
            /\ child' = [child EXCEPT !.pipe = @ + 1, !.left = @ - 1]
            /\ UNCHANGED <<scanned, pc>>
    /\ UNCHANGED <<config, arch, sources, files, now, idx, attempts, sboms, refresh,
                   todo, scans, invoked, hung, ret, refreshes, read_errors, attested,
                   cycle, started, cleaned, containers>>

\* line 57: every byte is written and the block ends
SingleDropStdin ==
    /\ pc = "scan_single" /\ child # None
    /\ child.pos = "write" /\ child.left = 0
    /\ child' = drop_stdin(child)
    /\ UNCHANGED <<config, arch, sources, files, now, pc, idx, attempts, sboms,
                   refresh, todo, scanned, scans, invoked, hung, ret, refreshes,
                   read_errors, attested, cycle, started, cleaned, containers>>

\* lines 60-64: child.wait_with_output().await? returns once the
\* subprocess has exited, and its output is decoded
SingleWait ==
    /\ pc = "scan_single" /\ child # None
    /\ child.pos = "wait" /\ child.process = "exited"
    /\ \E out \in {[spawn |-> "ok", write |-> "ok", wait |-> "err"],
                    [spawn |-> "ok", write |-> "ok", wait |-> "ok",
                     stdout |-> child.stdout]} :
          scanned' = (child.source :>
                        scan_single(child.source, sboms[child.source], out).res) @@ scanned
    /\ child' = [child EXCEPT !.pos = "returned"]
    /\ pc' = "done"
    /\ UNCHANGED <<config, arch, sources, files, now, idx, attempts, sboms, refresh,
                   todo, scans, invoked, hung, ret, refreshes, read_errors, attested,
                   cycle, started, cleaned, containers>>

\* grype takes a byte from its standard input
ScannerRead ==
    /\ pc = "scan_single" /\ child # None
    /\ child.process = "running" /\ child.kind = "reads_to_eof"
    /\ child.pipe > 0
    /\ child' = [child EXCEPT !.pipe = @ - 1]
    /\ UNCHANGED <<config, arch, sources, files, now, pc, idx, attempts, sboms,
                   refresh, todo, scanned, scans, invoked, hung, ret, refreshes,
                   read_errors, attested, cycle, started, cleaned, containers>>

\* grype reads end-of-file (the pipe is empty and its write end closed),
\* prints what it prints and exits
ScannerExit ==
    /\ pc = "scan_single" /\ child # None
    /\ child.process = "running" /\ child.kind = "reads_to_eof"
    /\ child.pipe = 0 /\ child.stdin = "closed"
    /\ \E out \in {o \in ScannerOutcomes : "stdout" \in DOMAIN o} :
          child' = [child EXCEPT !.process = "exited", !.stdout = out.stdout]
    /\ UNCHANGED <<config, arch, sources, files, now, pc, idx, attempts, sboms,
                   refresh, todo, scanned, scans, invoked, hung, ret, refreshes,
                   read_errors, attested, cycle, started, cleaned, containers>>

\* grype dies before it has read everything
ScannerCrash ==
    /\ pc = "scan_single" /\ child # None
    /\ child.process = "running" /\ child.kind = "reads_to_eof"
    /\ child.pos = "write"
    /\ child' = [child EXCEPT !.process = "exited", !.stdout = Garbled]
    /\ UNCHANGED <<config, arch, sources, files, now, pc, idx, attempts, sboms,
                   refresh, todo, scanned, scans, invoked, hung, ret, refreshes,
                   read_errors, attested, cycle, started, cleaned, containers>>

NextSingle ==
    \/ SingleSpawn
    \/ SingleWrite
    \/ SingleDropStdin
    \/ SingleWait
    \/ ScannerRead
    \/ ScannerExit
    \/ ScannerCrash

SingleSpec == InitSingle /\ [][NextSingle]_vars

\* ------------------------------------------------------------------------
\* Repeated runs: main is started again (by a timer) after it has returned,
\* and time passes between the stages of a run
\* ------------------------------------------------------------------------
\* the latest time on the clock: cache_duration after the first start
MaxTime == Now0 + CacheDuration

\* time passes between two stages of main
Tick ==
    /\ pc \in {"scan", "export_metrics", "clean"}
    /\ now < MaxTime
    /\ now' = now + 1
    /\ UNCHANGED <<config, arch, sources, files, pc, idx, attempts, sboms, refresh,
                   todo, scanned, scans, invoked, hung, ret, refreshes, read_errors,
                   attested, cycle, started>>
    /\ UNCHANGED cleaned
    /\ UNCHANGED containers
    /\ UNCHANGED child

\* main has returned and is started again, now or later, with the same
\* config and the same containers running, over the files it left
Restart ==
    /\ pc = "done" /\ cycle < MaxCycles
    /\ \E t \in now..MaxTime : now' = t /\ started' = t
    /\ cycle' = cycle + 1
    /\ pc' = "create_sboms"
    /\ idx' = 1
    /\ attempts' = <<>> /\ sboms' = <<>>
    /\ refresh' = "none" /\ refreshes' = 0
    /\ todo' = {} /\ scanned' = <<>> /\ scans' = <<>>
    /\ invoked' = {}
    /\ hung' = None
    /\ ret' = [s \in Stages |-> "none"]
    /\ read_errors' = {} /\ attested' = <<>>
    /\ UNCHANGED <<config, arch, sources, files>>
    /\ cleaned' = None
    /\ UNCHANGED containers
    /\ UNCHANGED child

\* the first run starts in active mode with one image and an empty cache
InitCycle ==
    /\ Init
    /\ config.generate_sboms
    /\ Len(sources) = 1 /\ sources[1].type = "DockerImage"
    /\ \A p \in CachePaths : files[p] = Absent

NextCycle ==
    \/ CreateSbomsActive
    \/ CreateSbomsReturn
    \/ ScanRefresh
    \/ ScanStep
    \/ ScanReturn
    \/ ExportMetrics
    \/ Clean
    \/ Tick
    \/ Restart

CycleSpec == InitCycle /\ [][NextCycle]_vars

\* ------------------------------------------------------------------------
\* Claims
\* ------------------------------------------------------------------------
\* the command line a task ran on behalf of a source
Ran(tool, source) == \E c \in invoked : c.by = source /\ c.cmd.tool = tool

\* the sources of the batch create_sboms starts a resolution for
Tasks == {s \in Range(sources) : config.generate_sboms \/ s.type = "DockerImage"}

\* the other sources of the stage that is waiting for a hung tool have all
\* had their resolution (their scan) completed
SiblingsCompleted ==
    IF pc = "create_sboms"
    THEN \A t \in Tasks \ {hung} : t \in DOMAIN attempts
    ELSE \A t \in DOMAIN sboms \ {hung} : t \in DOMAIN scanned

\* C1: in both fan-out stages a source whose external tool never returns
\* stalls only itself: whichever source hangs, the other sources of the
\* stage are not blocked -- as long as one of them is not completed, the
\* program can still take a step.
C1_HungSourceStallsOnlyItself ==
    hung # None => (SiblingsCompleted \/ ENABLED Next)

\* C2: a database refresh that cannot be started, cannot be waited on or
\* exits non-zero makes scan return an error, and no scanner is spawned.
C2_RefreshFailureIsFatal ==
    refresh \in {"spawn_err", "wait_err", "exit_nonzero"} =>
        /\ ret["scan"] # "Ok"
        /\ pc \notin {"scan", "scan_loop"} => ret["scan"] = "Err"
        /\ \A c \in invoked : c.cmd.tool # "grype"

\* the complete encodings of the metrics of the given maps
EncodingsOf(sbomMap, scanMap) ==
    {encode(count_sboms(<<>>, sbomMap, o).value,
            count_scans(<<>>, scanMap, q, Today(now))) :
        o \in {oo \in Orders(sbomMap) : count_sboms(<<>>, sbomMap, oo).ok},
        q \in Orders(scanMap)}

\* C3: after a call of export_metrics, successful or failing, the metrics
\* file holds its complete previous content or the complete encoding of
\* all the sources passed in (a write of the encoded buffer that the file
\* system itself cuts short is set aside).
C3_MetricsFileNeverPartial ==
    ret["export_metrics"] # "none" =>
        \/ files[MetricsPath].data = PreviousMetrics
        \/ files[MetricsPath].data \in EncodingsOf(sboms, scans)
        \/ files[MetricsPath].data = [kind |-> "partial"]

\* the SBOMs that can be read as a package list
Readable(sbomMap) ==
    [s \in {t \in DOMAIN sbomMap : sbom_from_value(sbomMap[t]).ok} |-> sbomMap[s]]

\* C4: an SBOM that cannot be read as a package list affects only its own
\* source: unless the file system fails, export_metrics returns success and
\* the file holds the metrics of every other source of the two maps.
C4_UnreadableSbomAffectsOnlyItself ==
    (/\ ret["export_metrics"] # "none"
     /\ ~(/\ ret["export_metrics"] = "Err"
          /\ files[MetricsPath].data \in {PreviousMetrics, [kind |-> "partial"]}))
    => /\ ret["export_metrics"] = "Ok"
       /\ files[MetricsPath].data \in EncodingsOf(Readable(sboms), scans)

\* C5: the cache paths of two distinct sources of one batch never coincide.
C5_DistinctSourcesDistinctPaths ==
    \A i, j \in DOMAIN sources :
        (i # j /\ sbom_path(config, sources[i]) # None)
            => sbom_path(config, sources[i]) # sbom_path(config, sources[j])

\* C5, amended: two DockerImage sources of one batch have the same cache path
\* exactly when they have the same id, whatever their names; a
\* HostDirectory source has no cache path.
C5_PathsCoincideIffSameId ==
    \A i, j \in DOMAIN sources :
        /\ sources[i].type = "HostDirectory" => sbom_path(config, sources[i]) = None
        /\ (sources[i].type = "DockerImage" /\ sources[j].type = "DockerImage")
              => /\ sbom_path(config, sources[i]) # None
                 /\ (sbom_path(config, sources[i]) = sbom_path(config, sources[j]))
                       <=> (sources[i].id = sources[j].id)

\* two images with different ids have been resolved, each into its own file
C5_Witness ==
    /\ Len(sources) = 2 /\ idx = 3
    /\ sources[1].type = "DockerImage" /\ sources[2].type = "DockerImage"
    /\ sources[1].id # sources[2].id
    /\ DOMAIN attempts = {sources[1], sources[2]}
    /\ attempts[sources[1]].ok /\ attempts[sources[2]].ok
    /\ files[sbom_path(config, sources[1])] # Absent
    /\ files[sbom_path(config, sources[2])] # Absent
    /\ files[sbom_path(config, sources[1])].data # files[sbom_path(config, sources[2])].data

\* a pass of the for loop of create_sboms has resolved sources[idx]
Resolved == pc = "create_sboms" /\ idx <= Len(sources) /\ idx' = idx + 1

CacheMiss(source) ==
    \/ sbom_path(config, source) = None
    \/ files[sbom_path(config, source)] = Absent

CacheUnparsable(source) ==
    /\ sbom_path(config, source) # None
    /\ files[sbom_path(config, source)] # Absent
    /\ ~from_slice(files[sbom_path(config, source)].data).ok

\* the documents syft can print for a source
GeneratorDocs(source) ==
    {o.stdout.value : o \in {g \in GeneratorOutcomes(scan_target_of(source)) :
                               g.spawn = "ok" /\ g.stdout.kind = "json"}}

\* after the pass: syft was run for the source, and a document returned
\* for it is what syft printed, now held by the cache file if there is one
Regenerated(source) ==
    /\ [cmd |-> Invocation("syft", scan_target_of(source)), by |-> source] \in invoked'
    /\ attempts'[source].ok =>
          /\ attempts'[source].value \in GeneratorDocs(source)
          /\ sbom_path(config, source) # None =>
                /\ files'[sbom_path(config, source)] # Absent
                /\ from_slice(files'[sbom_path(config, source)].data) = attempts'[source]

\* C6: in active mode a cache miss always runs the generator against the
\* target; the document returned is the generator's output, persisted at
\* the cache path of a DockerImage source.
C6_ActiveMissRunsGenerator ==
    [][(Resolved /\ config.generate_sboms /\ CacheMiss(sources[idx]))
          => Regenerated(sources[idx])]_vars

\* C7: a cache file that fails to parse is a cache miss in both modes: in
\* active mode the generator is run and the file replaced by its output, in
\* passive mode the attestation lookup is attempted; the unparsable content
\* alone never makes the source fail.
C7_UnparsableCacheIsMiss ==
    [][(Resolved /\ CacheUnparsable(sources[idx]))
          => /\ config.generate_sboms => Regenerated(sources[idx])
             /\ ~config.generate_sboms =>
                   [cmd |-> Invocation("docker", scan_target_of(sources[idx])),
                    by |-> sources[idx]] \in invoked']_vars

\* C7, amended: a cache file that fails to parse is a cache miss in active
\* mode only, where the generator is run and a document it yields replaces
\* the file; in passive mode the source fails, no attestation lookup or
\* other command is run and the file stays as it is.  In neither mode is
\* the unparsable content returned.
C7_UnparsableCacheRegeneratedOnlyInActiveMode ==
    [][(Resolved /\ CacheUnparsable(sources[idx]))
          => /\ config.generate_sboms => Regenerated(sources[idx])
             /\ ~config.generate_sboms =>
                   /\ ~attempts'[sources[idx]].ok
                   /\ invoked' = invoked
                   /\ files' = files]_vars

\* passive mode has met a garbled cache file and dropped the source
C7_Witness ==
    /\ ~config.generate_sboms
    /\ \E s \in DOMAIN attempts :
          /\ files[sbom_path(config, s)] # Absent
          /\ files[sbom_path(config, s)].data = Garbled
          /\ ~attempts[s].ok
          /\ s \notin DOMAIN sboms

\* C8: every file present at a DockerImage cache path holds one parsable
\* JSON document, whatever the generator did (a write that the file system
\* itself cuts short is set aside).
C8_CacheFilesParsable ==
    \A p \in CachePaths :
        (files[p] # Absent /\ files[p].data # [kind |-> "partial"])
            => from_slice(files[p].data).ok

\* C9: create_sboms never returns an error, and its map holds exactly the
\* sources whose resolution succeeded, each with the document that
\* resolution returned, whatever happened to the other sources.
C9_SbomMapIsExactlyTheSuccesses ==
    /\ ret["create_sboms"] # "Err"
    /\ DOMAIN sboms = {s \in DOMAIN attempts : attempts[s].ok}
    /\ \A s \in DOMAIN sboms : sboms[s] = attempts[s].value
    /\ pc # "create_sboms" =>
          /\ ret["create_sboms"] = "Ok"
          /\ DOMAIN attempts = Tasks

\* create_sboms has returned a map after a failure followed by a success
C9_Witness ==
    /\ pc = "scan" /\ Len(sources) = 2
    /\ DOMAIN attempts = {sources[1], sources[2]}
    /\ ~attempts[sources[1]].ok
    /\ attempts[sources[2]].ok
    /\ DOMAIN sboms = {sources[2]}

\* C10: once the database refresh has succeeded, scan never returns an
\* error, and its map holds exactly the sources whose scan succeeded, each
\* with its report, whatever happened to the other sources.
C10_ScanMapIsExactlyTheSuccesses ==
    refresh = "exit_zero" =>
        /\ ret["scan"] # "Err"
        /\ DOMAIN scans = {s \in DOMAIN scanned : scanned[s].ok}
        /\ \A s \in DOMAIN scans : scans[s] = scanned[s].value
        /\ pc \notin {"scan", "scan_loop"} =>
              /\ ret["scan"] = "Ok"
              /\ DOMAIN scanned = DOMAIN sboms

\* scan has returned a map holding B and not A, whose scan failed
C10_Witness ==
    /\ refresh = "exit_zero" /\ ret["scan"] = "Ok"
    /\ \E a, b \in DOMAIN sboms :
          /\ ~scanned[a].ok /\ a \notin DOMAIN scans
          /\ scanned[b].ok /\ b \in DOMAIN scans /\ scans[b] = scanned[b].value

\* the scanner subprocesses spawned so far
ScannerCommands == {c \in invoked : c.cmd.tool = "grype"}

\* C11: in every batch the database refresh is run exactly once, also for
\* an empty map of SBOMs; a scanner is only spawned after the refresh
\* subprocess has exited, and every scanner runs with its own database
\* update disabled.
C11_RefreshOnceBeforeScanners ==
    /\ refreshes <= 1
    /\ (pc = "scan_loop" \/ ret["scan"] # "none") => refreshes = 1
    /\ ScannerCommands # {} =>
          /\ refreshes = 1
          /\ refresh \in {"exit_zero", "exit_nonzero"}
    /\ \A c \in ScannerCommands : c.cmd.db_auto_update = FALSE

\* scan has returned after one refresh and the scans of two sources
C11_Witness ==
    /\ ret["scan"] = "Ok" /\ refreshes = 1 /\ refresh = "exit_zero"
    /\ Cardinality({c.by : c \in ScannerCommands}) = 2

CacheParsable(source) ==
    /\ sbom_path(config, source) # None
    /\ files[sbom_path(config, source)] # Absent
    /\ from_slice(files[sbom_path(config, source)].data).ok

\* C12: a cache hit -- a parsable file is present at the cache path of the
\* source, and opening and reading it does not fail -- spawns no subprocess
\* in either mode, leaves the content of the file as it is and returns
\* exactly the parsed content of the file.
C12_CacheHitSpawnsNothing ==
    [][(Resolved /\ CacheParsable(sources[idx]) /\ sources[idx] \notin read_errors')
          => /\ invoked' = invoked
             /\ files'[sbom_path(config, sources[idx])] # Absent
             /\ files'[sbom_path(config, sources[idx])].data
                   = files[sbom_path(config, sources[idx])].data
             /\ attempts'[sources[idx]]
                   = from_slice(files[sbom_path(config, sources[idx])].data)
             /\ sources[idx] \in DOMAIN sboms'
             /\ sboms'[sources[idx]]
                   = from_slice(files[sbom_path(config, sources[idx])].data).value]_vars

\* active mode has resolved a source from its cache file without running
\* any command for it
C12_Witness ==
    /\ config.generate_sboms
    /\ \E s \in DOMAIN sboms :
          /\ CacheParsable(s)
          /\ s \notin read_errors
          /\ sboms[s] = from_slice(files[sbom_path(config, s)].data).value
          /\ \A c \in invoked : c.by # s

\* the attestation entries named after the host architecture: one or none
PlatformsOf(hostArch) ==
    CASE hostArch = "x86_64" -> {"linux/amd64"}
      [] hostArch = "aarch64" -> {"linux/arm64"}
      [] OTHER -> {}

\* the JSON value an attestation lookup printed, None when it printed none
PrintedValue(att) ==
    IF att.spawn = "ok" /\ from_slice(att.stdout).ok
    THEN from_slice(att.stdout).value
    ELSE None

\* the SPDX document of the entry for the host architecture; of the
\* unqualified entry on a host that is neither x86_64 nor aarch64
PlatformDocument(att, hostArch) ==
    LET v == PrintedValue(att)
    IN IF v = None THEN None
       ELSE IF PlatformsOf(hostArch) = {} THEN JsonGet(v, "SPDX")
       ELSE IF \E platform \in PlatformsOf(hostArch) : platform \in DOMAIN v
       THEN JsonGet(v[CHOOSE platform \in PlatformsOf(hostArch) : TRUE], "SPDX")
       ELSE None

\* the same, with the unqualified entry also standing in on an x86_64 or
\* aarch64 host when the attestation has no entry for its platform
CompatibleDocument(att, hostArch) ==
    LET v == PrintedValue(att)
    IN IF v = None THEN None
       ELSE IF \E platform \in PlatformsOf(hostArch) : platform \in DOMAIN v
       THEN JsonGet(v[CHOOSE platform \in PlatformsOf(hostArch) : TRUE], "SPDX")
       ELSE JsonGet(v, "SPDX")

\* a pass of the loop in passive mode: syft is not run, no file changes,
\* the entries of the other sources stay, and a DockerImage source without
\* a cache file gets the expected document, or no entry when there is none
PassiveResolution(expected) ==
    /\ \A c \in invoked' : c.cmd.tool # "syft"
    /\ files' = files
    /\ \A t \in DOMAIN sboms : t \in DOMAIN sboms' /\ sboms'[t] = sboms[t]
    /\ DOMAIN sboms' \subseteq DOMAIN sboms \cup {sources[idx]}
    /\ (sources[idx].type = "DockerImage" /\ CacheMiss(sources[idx])) =>
          IF expected = None
          THEN ~attempts'[sources[idx]].ok /\ sources[idx] \notin DOMAIN sboms'
          ELSE /\ attempts'[sources[idx]] = Ok(expected)
               /\ sources[idx] \in DOMAIN sboms'
               /\ sboms'[sources[idx]] = expected

\* C13: in passive mode the generator is never run and no file is created
\* or modified; a DockerImage source without a cache file resolves to the
\* SPDX document of the attestation entry for the host architecture
\* (x86_64: linux/amd64, aarch64: linux/arm64, otherwise the unqualified
\* entry), and when there is no such document only that source is left out.
C13_PassiveUsesHostPlatformEntry ==
    [][(Resolved /\ ~config.generate_sboms)
          => PassiveResolution(PlatformDocument(attested'[sources[idx]], arch))]_vars

\* C13, amended: as above, but on an x86_64 or aarch64 host whose platform
\* has no entry in the attestation the source resolves to the SPDX document
\* of the unqualified entry; it is left out only when that is missing too,
\* or when the entry of its platform holds no SPDX document.
C13_PassiveFallsBackToUnqualifiedEntry ==
    [][(Resolved /\ ~config.generate_sboms)
          => PassiveResolution(CompatibleDocument(attested'[sources[idx]], arch))]_vars

\* passive mode on an x86_64 host has resolved one image from the
\* linux/amd64 entry of its attestation and left out another, whose
\* attestation holds no compatible document
C13_Witness ==
    /\ ~config.generate_sboms /\ arch = "x86_64"
    /\ \E s \in DOMAIN sboms, t \in DOMAIN attempts \ DOMAIN sboms :
          /\ s \in DOMAIN attested
          /\ PrintedValue(attested[s]) # None
          /\ "linux/amd64" \in DOMAIN PrintedValue(attested[s])
          /\ sboms[s] = JsonGet(PrintedValue(attested[s])["linux/amd64"], "SPDX")
          /\ t.type = "DockerImage" /\ CacheMiss(t)
          /\ \A c \in invoked : c.cmd.tool # "syft"

\* the cache file at path p was produced by an earlier run: it is parsable
\* and was last accessed before the current run started (the access time
\* is the one the filesystem reports; reading the file leaves it alone, as
\* on a mount with noatime, so it is the same at the start of the run and
\* when the janitor looks at it)
FromEarlierCycle(p) ==
    /\ cycle >= 2
    /\ files[p] # Absent
    /\ from_slice(files[p].data).ok
    /\ files[p].atime.ok
    /\ files[p].atime.value < started

\* a pass of the loop of create_sboms over a source whose cache file is
\* from an earlier run and can be read does not run the generator for it
NotGeneratedAgain ==
    (/\ Resolved
     /\ sbom_path(config, sources[idx]) # None
     /\ FromEarlierCycle(sbom_path(config, sources[idx]))
     /\ sources[idx] \notin read_errors')
    => [cmd |-> Invocation("syft", scan_target_of(sources[idx])),
        by |-> sources[idx]] \notin invoked'

\* the janitor has run
Cleaned == pc = "clean" /\ pc' = "done"

Stale(p) ==
    /\ Len(p) > Len(config.base_path)
    /\ \A k \in 1..Len(config.base_path) : p[k] = config.base_path[k]
    /\ files[p] # Absent
    /\ "dir" \notin DOMAIN files[p]
    /\ Extension(p) = <<"j", "s", "o", "n">>
    /\ files[p].atime.ok
    /\ now - files[p].atime.value >= config.cache_duration

\* C15: clean deletes a file under base_path if and only if it is a
\* regular file with extension json whose last access is known and lies at
\* least cache_duration back: whatever clean changes is such a file and is
\* deleted, and when clean returns Ok every such file has been deleted (a
\* removal that fails is the subject of C20).
C15_DeletesExactlyStaleJson ==
    [][Cleaned =>
         \A p \in DOMAIN files :
            /\ files'[p] # files[p] => (Stale(p) /\ files'[p] = Absent)
            /\ (ret'["clean"] = "Ok" /\ Stale(p)) => files'[p] = Absent]_vars

\* clean has returned Ok: it deleted a document, and kept a document
\* accessed one second less than cache_duration ago, a document whose
\* access time is unknown, a directory named like a document, a document
\* outside base_path and a metrics file older than cache_duration
C15_Witness ==
    /\ pc = "done" /\ ret["clean"] = "Ok" /\ cleaned # None
    /\ \E deleted, kept, unknown, dir \in CachePaths \cup {StrayPath, NestedPath} :
          /\ deleted \in Range(cleaned.walk) /\ files[deleted] = Absent
          /\ files[kept] # Absent /\ is_file(files[kept])
          /\ files[kept].atime = Ok(now - config.cache_duration + 1)
          /\ files[unknown] # Absent /\ is_file(files[unknown])
          /\ ~files[unknown].atime.ok
          /\ files[dir] # Absent /\ ~is_file(files[dir])
    /\ files[OutsidePath] # Absent /\ is_file(files[OutsidePath])
    /\ files[OutsidePath].atime = Ok(now - config.cache_duration - 1)
    /\ files[MetricsPath] # Absent /\ is_file(files[MetricsPath])
    /\ files[MetricsPath].atime = Ok(now - config.cache_duration - 1)

\* C20: clean propagates the first removal that fails and stops there: the
\* stale files the walk yielded before it are deleted, the one that failed
\* and those after it are left as they were, and clean returns Err; when no
\* removal fails, every stale file is deleted and clean returns Ok.
C20_FirstFailureStopsClean ==
    [][Cleaned =>
         LET walk == cleaned'.walk
             failAt == cleaned'.failAt
         IN /\ Range(walk) = {p \in DOMAIN files : Stale(p)}
            /\ \A k \in DOMAIN walk :
                  IF k < failAt THEN files'[walk[k]] = Absent
                                ELSE files'[walk[k]] = files[walk[k]]
            /\ ret'["clean"] = IF failAt \in DOMAIN walk THEN "Err" ELSE "Ok"
            /\ ret'["clean"] = "Ok" =>
                  \A p \in DOMAIN files : Stale(p) => files'[p] = Absent]_vars

\* clean has returned Err on the second of three stale files: the first is
\* deleted, the second and the third are still there
C20_Witness ==
    /\ pc = "done" /\ ret["clean"] = "Err" /\ cleaned # None
    /\ Len(cleaned.walk) = 3 /\ cleaned.failAt = 2
    /\ files[cleaned.walk[1]] = Absent
    /\ files[cleaned.walk[2]] # Absent
    /\ files[cleaned.walk[3]] # Absent

\* the (image name, image id) pair of a container record, an absent field
\* read as the empty string
PairOf(record) ==
    <<IF record.image = None THEN "" ELSE record.image.some,
      IF record.image_id = None THEN <<>> ELSE record.image_id.some>>
\* the position of the first record with the pair of a source
FirstSeen(source) ==
    CHOOSE k \in DOMAIN containers :
        /\ PairOf(containers[k]) = <<source.name, source.id>>
        /\ \A j \in 1..(k - 1) : PairOf(containers[j]) # <<source.name, source.id>>

\* C16: get_docker_images returns each distinct (image name, image id)
\* pair of the container records exactly once, as a DockerImage source, in
\* the order in which the pairs are first seen in the listing.
C16_DistinctPairsOnceInFirstSeenOrder ==
    pc = "create_sboms" =>
        /\ \A k \in DOMAIN sources : sources[k].type = "DockerImage"
        /\ {<<src.name, src.id>> : src \in Range(sources)}
             = {PairOf(containers[k]) : k \in DOMAIN containers}
        /\ \A i, j \in DOMAIN sources : sources[i] = sources[j] => i = j
        /\ \A i, j \in DOMAIN sources :
              i < j => FirstSeen(sources[i]) < FirstSeen(sources[j])

\* three containers were listed, the first and the third of one image and
\* the second of another: the batch is the first image, then the second
C16_Witness ==
    /\ pc = "create_sboms"
    /\ Len(containers) = 3
    /\ PairOf(containers[1]) = PairOf(containers[3])
    /\ PairOf(containers[1]) # PairOf(containers[2])
    /\ Len(sources) = 2
    /\ <<sources[1].name, sources[1].id>> = PairOf(containers[1])
    /\ <<sources[2].name, sources[2].id>> = PairOf(containers[2])

\* the package entries of the SBOMs, each as <<source, position>>, and
\* the version of one (the empty string when it has none)
PackageEntries ==
    UNION {{<<s, k>> : k \in DOMAIN sboms[s].packages} :
           s \in {t \in DOMAIN sboms : "packages" \in DOMAIN sboms[t]}}
VersionOf(e) ==
    LET entry == sboms[e[1]].packages[e[2]]
    IN IF "versionInfo" \in DOMAIN entry THEN entry.versionInfo ELSE ""
SbomLabelsOf(e) ==
    [software |-> sboms[e[1]].packages[e[2]].name,
     version |-> VersionOf(e),
     source |-> SourceLabels(e[1])]
\* the families of the metrics file export_metrics wrote
Exported == files[MetricsPath].data

\* C17: in the SBOM counter family export_metrics writes, there is a
\* counter for exactly the label sets (name, version, source) of the
\* package entries with a non-empty version, and its value is the number
\* of those entries, in whichever order the sources are iterated.
C17_SbomCountersCountEntries ==
    ret["export_metrics"] = "Ok" =>
        LET counted == {e \in PackageEntries : VersionOf(e) # ""}
        IN Exported.sbom =
             [labels \in {SbomLabelsOf(e) : e \in counted} |->
                 Cardinality({e \in counted : SbomLabelsOf(e) = labels})]

\* two SBOMs were exported: one names a package twice and has a counter
\* of two for it, and an entry with an empty version has no counter
C17_Witness ==
    /\ ret["export_metrics"] = "Ok"
    /\ Cardinality(DOMAIN sboms) = 2
    /\ \E labels \in DOMAIN Exported.sbom : Exported.sbom[labels] = 2
    /\ \E e \in PackageEntries :
          /\ VersionOf(e) = ""
          /\ SbomLabelsOf(e) \notin DOMAIN Exported.sbom
    /\ \A labels \in DOMAIN Exported.sbom : labels.version # ""

\* the (vulnerability, artifact) pairs of the reports, each as
\* <<source, position>>
MatchEntries ==
    UNION {{<<s, k>> : k \in DOMAIN scans[s].matches} : s \in DOMAIN scans}
MatchOf(e) == scans[e[1]].matches[e[2]]
\* the exported label sets of a pair
ExportedFor(e) ==
    {labels \in DOMAIN Exported.vulnerability_scans :
        /\ labels.source = SourceLabels(e[1])
        /\ labels.cve = MatchOf(e).vulnerability.id
        /\ labels.software = MatchOf(e).artifact.name}
ExpectedScores(cvss) ==
    IF Len(cvss) = 0
    THEN <<<<"undefined">>, <<"undefined">>, <<"undefined">>>>
    ELSE <<DecimalToString(cvss[1].metrics.baseScore),
           DecimalToString(cvss[1].metrics.exploitabilityScore),
           DecimalToString(cvss[1].metrics.impactScore)>>

\* C18: every (vulnerability, artifact) pair is exported with the three
\* CVSS labels "undefined" when the CVSS list of the vulnerability is
\* empty and with the three scores of the first record of the list
\* otherwise; no exported label is a score of the zero-valued fallback.
C18_CvssLabelsUndefinedOrFirstRecord ==
    ret["export_metrics"] = "Ok" =>
        /\ \A e \in MatchEntries :
              /\ ExportedFor(e) # {}
              /\ \A labels \in ExportedFor(e) :
                    <<labels.cvss_base_score, labels.cvss_exploitability_score,
                      labels.cvss_impact_score>>
                      = ExpectedScores(MatchOf(e).vulnerability.cvss)
        /\ \A labels \in DOMAIN Exported.vulnerability_scans :
              /\ \E e \in MatchEntries : labels \in ExportedFor(e)
              /\ DecimalToString(Decimal(0, 1))
                   \notin {labels.cvss_base_score, labels.cvss_exploitability_score,
                           labels.cvss_impact_score}

\* a report was exported with one vulnerability that has CVSS records and
\* one that has none
C18_Witness ==
    /\ ret["export_metrics"] = "Ok"
    /\ \E e1, e2 \in MatchEntries :
          /\ Len(MatchOf(e1).vulnerability.cvss) = 2
          /\ MatchOf(e2).vulnerability.cvss = <<>>
          /\ \E labels \in ExportedFor(e1) :
                labels.cvss_base_score
                  = DecimalToString(MatchOf(e1).vulnerability.cvss[1].metrics.baseScore)
          /\ \E labels \in ExportedFor(e2) : labels.cvss_base_score = <<"undefined">>

\* C19: in scan_single the task never waits for grype to exit while it
\* holds the standard input of grype open: when it waits, every byte of
\* the SBOM has been written and the pipe is closed; and with a grype that
\* reads its input to end-of-file and then exits, the task or grype can
\* always take a step until scan_single has returned.
C19_StdinClosedBeforeWait ==
    (pc = "scan_single" /\ child # None) =>
        /\ child.pos = "wait" => (child.stdin = "closed" /\ child.left = 0)
        /\ child.kind = "reads_to_eof" => ENABLED NextSingle

\* scan_single has returned the report of a grype that read more bytes
\* than the pipe holds, saw end-of-file and exited
C19_Witness ==
    /\ pc = "done" /\ child # None
    /\ child.pos = "returned" /\ child.kind = "reads_to_eof"
    /\ child.stdin = "closed" /\ child.left = 0 /\ child.pipe = 0
    /\ child.process = "exited"
    /\ child.source \in DOMAIN scanned /\ scanned[child.source].ok
    /\ MaxBytes > PipeCapacity

\* the sources whose SBOM resolution returned an error
FailedResolution == {s \in DOMAIN attempts : ~attempts[s].ok}
\* the label sets of the two counter families of the metrics file, once
\* this run has written it
ExportedLabels ==
    IF ret["export_metrics"] = "Ok"
    THEN DOMAIN files[MetricsPath].data.sbom
         \cup DOMAIN files[MetricsPath].data.vulnerability_scans
    ELSE {}

\* C21: the keys of the report map are keys of the SBOM map, which are
\* among the discovered sources; a source whose SBOM resolution failed is
\* not handed to the scanner, has no report, and no counter of either
\* family carries its labels.
C21_ReportsWithinSbomsWithinSources ==
    /\ DOMAIN scans \subseteq DOMAIN sboms
    /\ DOMAIN sboms \subseteq Range(sources)
    /\ \A s \in FailedResolution :
          /\ s \notin DOMAIN sboms
          /\ s \notin todo
          /\ s \notin DOMAIN scanned
          /\ \A c \in invoked : c.cmd.tool = "grype" => c.by # s
          /\ \A labels \in ExportedLabels : labels.source # SourceLabels(s)

\* the run has exported the metrics of a batch of two: one source failed
\* resolution, the other was resolved and scanned and has counters in
\* both families
C21_Witness ==
    /\ ret["export_metrics"] = "Ok"
    /\ Len(sources) = 2
    /\ \E s \in FailedResolution, t \in DOMAIN scans :
          /\ s \in Range(sources) /\ t \in Range(sources)
          /\ \E labels \in DOMAIN files[MetricsPath].data.sbom :
                labels.source = SourceLabels(t)
          /\ \E labels \in DOMAIN files[MetricsPath].data.vulnerability_scans :
                labels.source = SourceLabels(t)

====
